---- MODULE Spec2Model ----
(***************************************************************************)
(* State-machine model of desc.monitor: the LightCurve assembler           *)
(* (monitor.py) and the TrueStars truth-table builder (CreateTruthDB.py).  *)
(*                                                                         *)
(* Conventions of the model                                                *)
(*   - a Python value that may be None is a sequence: <<>> is None and     *)
(*     <<v>> is the value v; an instance attribute that may not exist is   *)
(*     wrapped the same way (<<>>: no such attribute);                     *)
(*   - a Python str that the code slices or concatenates is a sequence of  *)
(*     one-character strings;                                              *)
(*   - a call that raises is a step whose outcome names the exception;     *)
(*   - angles are integers in units of 0.001 degree, magnitudes integers   *)
(*     in units of 0.1 mag.                                                *)
(***************************************************************************)
EXTENDS Integers, Sequences, FiniteSets, TLC

VARIABLES
    dbConn_lc,     \* LightCurve.dbConn_lc: the forced-photometry database
    disk,          \* the tree <fp_table_dir>/0: directory name -> S11.fits
    bandpasses,    \* LightCurve.bandpasses   (attribute, may not exist)
    visit_map,     \* LightCurve.visit_map    (attribute, may not exist)
    visit_mjd,     \* LightCurve.visit_mjd    (attribute, may not exist)
    lightcurve,    \* LightCurve.lightcurve   (attribute, may not exist)
    outcome,       \* the last LightCurve call: arguments, result, effects
    catalog,       \* TrueStars.dbConn: visit -> stars the catalog returns
    star_df,       \* TrueStars.star_df       (attribute, may not exist)
    sqlite,        \* SQLite files: file name -> (table name -> rows)
    ts_outcome     \* the last TrueStars call: arguments and result

lcVars == <<dbConn_lc, disk, bandpasses, visit_map, visit_mjd, lightcurve, outcome>>
tsVars == <<catalog, star_df, sqlite, ts_outcome>>
vars == <<dbConn_lc, disk, bandpasses, visit_map, visit_mjd, lightcurve, outcome,
          catalog, star_df, sqlite, ts_outcome>>

-----------------------------------------------------------------------------
(* Python values *)

None == <<>>
Some(v) == <<v>>
NoAttr == <<>>
Attr(v) == <<v>>

Range(s) == {s[i] : i \in 1..Len(s)}

Abs(x) == IF x < 0 THEN -x ELSE x

RECURSIVE Sum(_)
Sum(s) == IF s = <<>> THEN 0 ELSE Head(s) + Sum(Tail(s))

\* all sequences over S of length at most n
SeqUpTo(S, n) == UNION {[1..k -> S] : k \in 0..n}

\* all sequences of distinct elements of S of length at most n
DistinctSeqUpTo(S, n) ==
    {s \in SeqUpTo(S, n) : \A i, j \in 1..Len(s) : i # j => s[i] # s[j]}

Digits == <<"0", "1", "2", "3", "4", "5", "6", "7", "8", "9">>

\* str(int(x)) of a non-negative number: decimal digits, no leading zero
RECURSIVE Str(_)
Str(n) == IF n < 10 THEN <<Digits[n + 1]>>
          ELSE Str(n \div 10) \o <<Digits[(n % 10) + 1]>>

-----------------------------------------------------------------------------
(* Bounds and input sets of the LightCurve model *)

MaxDirs == 2        \* visit directories under <fp_table_dir>/0
MaxFsRows == 2      \* rows of the forced-source table

\* the default of the filter_list parameter
FilterList == <<"u", "g", "r", "i", "z", "y">>

\* 'v<visit>-f<band>': the directory (and file path) convention of the code
DirName(visit, band) == <<"v">> \o visit \o <<"-", "f", band>>

DirNames == {DirName(Str(1), "g"), DirName(Str(1), "r"),
             DirName(<<"0">> \o Str(2), "r")}

\* rows of a per-visit S11.fits table
FitsRow(id, ra, dec, flux, sigma) ==
    [objectId |-> id, coord_ra |-> ra, coord_dec |-> dec,
     base_PsfFlux_flux |-> flux, base_PsfFlux_fluxSigma |-> sigma]

rowA == FitsRow(1, 53010, -27440, 100, 5)
rowA2 == FitsRow(1, 53011, -27441, 120, 6)
rowB == FitsRow(2, 53020, -27450, 300, 9)

\* a directory's S11.fits: None when the file is missing, else its rows
FitsFiles == {None, Some(<<>>), Some(<<rowA>>), Some(<<rowB>>),
              Some(<<rowA, rowA2>>), Some(<<rowB, rowA2>>)}

\* the mjd file: rows (visit number, mjd)
MjdFiles == {<< <<1, 57000>>, <<2, 57003>> >>,
             << <<1, 57000>>, <<1, 57001>> >>,
             << <<2, 57003>>, <<2, 57003>> >>,
             << <<1, 57000>> >>}

ObjRow(id, ra, dec) == [id |-> id, ra |-> ra, dec |-> dec]
obj1 == ObjRow(1, 53010, -27440)
obj2 == ObjRow(2, 53013, -27440)

Date(y, m, d) == [year |-> y, month |-> m, day |-> d]

FsRow(oid, visit, filter, start, flux, err) ==
    [object_id |-> oid, visit_id |-> visit, filter |-> filter,
     obs_start |-> start, psf_flux |-> flux, psf_flux_err |-> err]

FsPool == {FsRow(1, 200, "r", Date(2022, 1, 1), 110, 4),
           FsRow(1, 230, "g", Date(2022, 3, 1), 130, 7),
           FsRow(2, 200, "r", Date(2022, 1, 1), 310, 8)}

Databases == {[objects |-> o, forced |-> f] :
                 o \in {<<>>, <<obj1>>, <<obj1, obj2>>},
                 f \in DistinctSeqUpTo(FsPool, MaxFsRows)}

ObjIds == {None, Some(1), Some(2)}
RaDecs == {None, Some(<<53011, -27440>>)}
Tols == {0, 5}

-----------------------------------------------------------------------------
(* LightCurve.__init__ *)

\* np.genfromtxt(mjd_file, delimiter=','): a file of one row comes back as a
\* one-dimensional array of its numbers, any other as an array of rows
genfromtxt(mjd_file) ==
    IF Len(mjd_file) = 1 THEN [ndim |-> 1, data |-> mjd_file[1]]
    ELSE [ndim |-> 2, data |-> mjd_file]

\* for visit_date in mjd_list: self.visit_mjd[str(int(visit_date[0]))] = visit_date[1]
RECURSIVE LoadVisitMjd(_, _)
LoadVisitMjd(mjd_list, acc) ==
    IF mjd_list = <<>> THEN acc
    ELSE LET visit_date == Head(mjd_list)
             key == Str(visit_date[1])
         IN LoadVisitMjd(Tail(mjd_list),
                [k \in (DOMAIN acc) \cup {key} |->
                    IF k = key THEN visit_date[2] ELSE acc[k]])

\* visit_dir[-1] and visit_dir[1:-3]
visit_band(visit_dir) == visit_dir[Len(visit_dir)]
visit_num(visit_dir) == SubSeq(visit_dir, 2, Len(visit_dir) - 3)

\* for visit_dir in os.listdir(...): self.visit_map[visit_band].append(visit_num)
RECURSIVE LoadVisitMap(_, _)
LoadVisitMap(listing, acc) ==
    IF listing = <<>> THEN [result |-> "ok", visit_map |-> acc]
    ELSE LET d == Head(listing) IN
         IF visit_band(d) \notin DOMAIN acc
         THEN [result |-> "KeyError", visit_map |-> acc]
         ELSE LoadVisitMap(Tail(listing),
                  [acc EXCEPT ![visit_band(d)] = Append(@, visit_num(d))])

\* the constructor: the attributes it sets, or the exception it raises
\* (fp_table_dir is None, or the listing of <fp_table_dir>/0).
\* throughputs: whether the bandpass loop can read the throughput file of
\* every filter; np.genfromtxt raises IOError otherwise, before any of the
\* attributes below is set. A failed sncosmo registration is caught.
LightCurveInit(throughputs, fp_table_dir, mjd_file, filter_list) ==
    IF ~throughputs
    THEN [result |-> "IOError", bandpasses |-> NoAttr, visit_map |-> NoAttr,
          visit_mjd |-> NoAttr, lightcurve |-> NoAttr]
    ELSE IF fp_table_dir = None
    THEN [result |-> "ok", bandpasses |-> NoAttr, visit_map |-> NoAttr,
          visit_mjd |-> NoAttr, lightcurve |-> NoAttr]
    ELSE LET mjd_list == genfromtxt(mjd_file)
             vm == LoadVisitMap(fp_table_dir[1],
                                [x \in Range(filter_list) |-> <<>>])
         IN IF mjd_list.ndim = 1
            \* visit_date[0] on a number raises in the first iteration,
            \* after lines 71-75 have set the attributes
            THEN [result |-> "IndexError", bandpasses |-> Attr(filter_list),
                  visit_map |-> Attr([x \in Range(filter_list) |-> <<>>]),
                  visit_mjd |-> Attr(<<>>),
                  lightcurve |-> Attr(None)]
            ELSE [result |-> vm.result,
                  bandpasses |-> Attr(filter_list),
                  visit_map |-> Attr(vm.visit_map),
                  visit_mjd |-> Attr(LoadVisitMjd(mjd_list.data, <<>>)),
                  lightcurve |-> Attr(None)]

NoCall == [op |-> "__init__", objid |-> None, ra_dec |-> None, tol |-> 0,
           result |-> "ok", dbCalls |-> <<>>, printed |-> None,
           plotted |-> FALSE]

\* the directory listings os.listdir may return, in any order
Listings == DistinctSeqUpTo(DirNames, MaxDirs)

\* the database handed to an instance that also reads the file tree
FileModeDb == [objects |-> <<obj1, obj2>>,
               forced |-> <<FsRow(1, 200, "r", Date(2022, 1, 1), 110, 4),
                            FsRow(2, 200, "r", Date(2022, 1, 1), 310, 8)>>]

\* LightCurve(dbConn): no fp_table_dir
InitNoFp ==
    \E db \in Databases, throughputs \in BOOLEAN :
        LET made == LightCurveInit(throughputs, None, <<>>, FilterList)
        IN /\ made.result = "ok"
           /\ dbConn_lc = db
           /\ disk = <<>>
           /\ bandpasses = made.bandpasses
           /\ visit_map = made.visit_map
           /\ visit_mjd = made.visit_mjd
           /\ lightcurve = made.lightcurve
           /\ outcome = NoCall

\* LightCurve(dbConn, fp_table_dir, mjd_file): only the constructions that
\* return are instances
InitFp ==
    \E listing \in Listings, mjd_file \in MjdFiles, throughputs \in BOOLEAN :
      \E files \in [Range(listing) -> FitsFiles] :
        LET made == LightCurveInit(throughputs, Some(listing), mjd_file,
                                   FilterList)
        IN /\ made.result = "ok"
           /\ dbConn_lc = FileModeDb
           /\ disk = files
           /\ bandpasses = made.bandpasses
           /\ visit_map = made.visit_map
           /\ visit_mjd = made.visit_mjd
           /\ lightcurve = made.lightcurve
           /\ outcome = NoCall

LCInit == InitNoFp \/ InitFp

-----------------------------------------------------------------------------
(* LightCurve.build_lightcurve: the file-based assembly *)

ZP == 25                     \* lightcurve['zp'] entries (25.0)
ZPSYS == "ab"                \* lightcurve['zpsys'] entries

\* str('lsst' + x)
lsst(x) == <<"l", "s", "s", "t", x>>

BuildIds == {1, 2}

\* the local dict of eight empty lists
EmptyLightcurve ==
    [bandpass |-> <<>>, mjd |-> <<>>, ra |-> <<>>, dec |-> <<>>, flux |-> <<>>,
     flux_error |-> <<>>, zp |-> <<>>, zpsys |-> <<>>]

\* hdulist[1].data[np.where(hdulist[1].data['objectId'] == objid)]
ObjData(rows, objid) ==
    LET Match(r) == r.objectId = objid IN SelectSeq(rows, Match)

\* the eight appends made for a visit whose file has the object
AppendMatchLastRow(lc, bandpass, mjd, obj_data) ==
    LET last == obj_data[Len(obj_data)] IN
    [bandpass |-> Append(lc.bandpass, lsst(bandpass)),
     mjd |-> Append(lc.mjd, mjd),
     ra |-> Append(lc.ra, last.coord_ra),
     dec |-> Append(lc.dec, last.coord_dec),
     flux |-> Append(lc.flux, last.base_PsfFlux_flux),
     flux_error |-> Append(lc.flux_error, last.base_PsfFlux_fluxSigma),
     zp |-> Append(lc.zp, ZP),
     zpsys |-> Append(lc.zpsys, ZPSYS)]

AppendMatch(lc, bandpass, mjd, obj_data) ==
    [bandpass |-> Append(lc.bandpass, lsst(bandpass)),
     mjd |-> Append(lc.mjd, mjd),
     ra |-> Append(lc.ra, obj_data[1].coord_ra),
     dec |-> Append(lc.dec, obj_data[1].coord_dec),
     flux |-> Append(lc.flux, obj_data[1].base_PsfFlux_flux),
     flux_error |-> Append(lc.flux_error, obj_data[1].base_PsfFlux_fluxSigma),
     zp |-> Append(lc.zp, ZP),
     zpsys |-> Append(lc.zpsys, ZPSYS)]

\* the pairs the two nested loops visit, in their order:
\* for bandpass in self.bandpasses: for visit in self.visit_map[bandpass]
RECURSIVE LoopPairs(_, _)
LoopPairs(bps, vmap) ==
    IF bps = <<>> THEN <<>>
    ELSE [i \in 1..Len(vmap[Head(bps)]) |-> <<Head(bps), vmap[Head(bps)][i]>>]
         \o LoopPairs(Tail(bps), vmap)

\* the loop body over the remaining pairs; fits.open raises IOError on a
\* missing file, self.visit_mjd[str(visit)] raises KeyError on a missing key
RECURSIVE ScanVisits(_, _, _, _, _)
ScanVisits(files, mjds, pairs, objid, lc) ==
    IF pairs = <<>> THEN [result |-> "ok", table |-> lc]
    ELSE LET bandpass == Head(pairs)[1]
             visit == Head(pairs)[2]
             path == DirName(visit, bandpass)
         IN IF path \notin DOMAIN files \/ files[path] = None
            THEN [result |-> "IOError", table |-> lc]
            ELSE LET obj_data == ObjData(files[path][1], objid) IN
                 IF Len(obj_data) > 0
                 THEN IF visit \notin DOMAIN mjds
                      THEN [result |-> "KeyError", table |-> lc]
                      ELSE ScanVisits(files, mjds, Tail(pairs), objid,
                               AppendMatch(lc, bandpass, mjds[visit], obj_data))
                 ELSE ScanVisits(files, mjds, Tail(pairs), objid, lc)

\* the call: its result and the value of self.lightcurve after it
build_lightcurve(objid) ==
    IF bandpasses = NoAttr
    THEN [result |-> "AttributeError", lightcurve |-> lightcurve]
    ELSE LET r == ScanVisits(disk, visit_mjd[1],
                             LoopPairs(bandpasses[1], visit_map[1]),
                             objid, EmptyLightcurve)
         IN IF r.result = "ok"
            THEN [result |-> "ok", lightcurve |-> Attr(Some(r.table))]
            ELSE [result |-> r.result, lightcurve |-> lightcurve]

BuildLightcurve ==
    \E objid \in BuildIds :
        LET r == build_lightcurve(objid) IN
        /\ lightcurve' = r.lightcurve
        /\ outcome' = [op |-> "build_lightcurve", objid |-> Some(objid),
                       ra_dec |-> None, tol |-> 0, result |-> r.result,
                       dbCalls |-> <<>>, printed |-> None, plotted |-> FALSE]
        /\ UNCHANGED <<dbConn_lc, disk, bandpasses, visit_map, visit_mjd>>
        /\ UNCHANGED tsVars

-----------------------------------------------------------------------------
(* The database interface (desc.monitor.dbConnection.dbInterface) *)

\* the object row with this id
objectFromId(db, objid) ==
    LET Is(o) == o.id = objid IN SelectSeq(db.objects, Is)

\* the objects within tol of (ra, dec)
objectFromRaDec(db, ra, dec, tol) ==
    LET Near(o) == Abs(o.ra - ra) < tol /\ Abs(o.dec - dec) < tol
    IN SelectSeq(db.objects, Near)

\* all forced-source rows of the object
all_fs_visits_from_id(db, objid) ==
    LET Of(r) == r.object_id = objid IN SelectSeq(db.forced, Of)

-----------------------------------------------------------------------------
(* LightCurve.build_lightcurve_from_db *)

MustSpecify == "ValueError: Must specify either objid or ra,dec location."
OnlyOne == "ValueError: Please specify only one of objid or ra,dec location."
NoMatch == "ValueError: No objects within specified ra,dec range."

\* Time(obs_start, scale='utc').mjd for a UTC midnight: the civil date to its
\* Julian day number, less the MJD epoch
TimeMjd(t) ==
    LET a == (14 - t.month) \div 12
        y == t.year + 4800 - a
        m == t.month + 12 * a - 3
        jdn == t.day + (153 * m + 2) \div 5 + 365 * y + y \div 4
               - y \div 100 + y \div 400 - 32045
    IN jdn - 2400001

\* the mutual-exclusion check on the two selectors
ArgCheckNeitherOnly(objid, ra_dec) ==
    IF objid = None /\ ra_dec = None THEN MustSpecify ELSE "ok"

ArgCheck(objid, ra_dec) ==
    IF objid = None /\ ra_dec = None THEN MustSpecify
    ELSE IF objid # None /\ ra_dec # None THEN OnlyOne
    ELSE "ok"

\* what the code does with the result of the coordinate lookup
RaDecCheckNoRaise(obj_info) ==
    IF Len(obj_info) > 1 THEN "print" ELSE "ok"

RaDecCheck(obj_info) ==
    IF Len(obj_info) = 0 THEN NoMatch
    ELSE IF Len(obj_info) > 1 THEN "print"
    ELSE "ok"

\* the dict built from fs_info and obj_info, num_results == len(fs_info)
DbLightcurve(fs_info, obj_info) ==
    [bandpass |-> [i \in 1..Len(fs_info) |-> lsst(fs_info[i].filter)],
     obsHistId |-> [i \in 1..Len(fs_info) |-> fs_info[i].visit_id],
     mjd |-> [i \in 1..Len(fs_info) |-> TimeMjd(fs_info[i].obs_start)],
     ra |-> [i \in 1..Len(fs_info) |-> obj_info[1].ra],
     dec |-> [i \in 1..Len(fs_info) |-> obj_info[1].dec],
     flux |-> [i \in 1..Len(fs_info) |-> fs_info[i].psf_flux],
     flux_error |-> [i \in 1..Len(fs_info) |-> fs_info[i].psf_flux_err],
     zp |-> [i \in 1..Len(fs_info) |-> ZP],
     zpsys |-> [i \in 1..Len(fs_info) |-> ZPSYS]]

Raised(exc, calls, shown) ==
    [result |-> exc, table |-> None, dbCalls |-> calls, printed |-> shown]

\* the body of the call up to the final assignment: the exception raised or
\* the table made, the database calls made and what was printed.
\* emptyTimeOk: whether astropy's Time accepts an empty input (the library
\* version decides).
FromDb(db, objid, ra_dec, tol, emptyTimeOk) ==
    LET check == ArgCheck(objid, ra_dec)
        byId == objid # None
        byPos == ra_dec # None
        idCalls == IF byId THEN <<"objectFromId", "all_fs_visits_from_id">>
                   ELSE <<>>
        calls == IF byPos THEN Append(idCalls, "objectFromRaDec") ELSE idCalls
        \* fs_info is bound only by the objid branch
        fs_info == IF byId THEN Some(all_fs_visits_from_id(db, objid[1]))
                   ELSE None
        found == IF byPos
                 THEN objectFromRaDec(db, ra_dec[1][1], ra_dec[1][2], tol)
                 ELSE <<>>
        lookup == IF byPos THEN RaDecCheck(found) ELSE "ok"
        shown == IF lookup = "print" THEN Some(found) ELSE None
        obj_info == IF byPos THEN Some(found)
                    ELSE IF byId THEN Some(objectFromId(db, objid[1]))
                    ELSE None
    IN IF check # "ok" THEN Raised(check, <<>>, None)
       ELSE IF lookup = NoMatch THEN Raised(NoMatch, calls, None)
       ELSE IF fs_info = None THEN Raised("UnboundLocalError", calls, shown)
       ELSE IF fs_info[1] = <<>> /\ ~emptyTimeOk
            THEN Raised("ValueError: Time", calls, shown)
       ELSE IF obj_info[1] = <<>> THEN Raised("IndexError", calls, shown)
       ELSE [result |-> "ok",
             table |-> Some(DbLightcurve(fs_info[1], obj_info[1])),
             dbCalls |-> calls, printed |-> shown]

\* self.lightcurve after the call: assigned by the last statement only
AssignResetFirst(r, old) ==
    IF r.result = "ok" THEN Attr(r.table) ELSE Attr(None)

AssignLightcurve(r, old) ==
    IF r.result = "ok" THEN Attr(r.table) ELSE old

BuildLightcurveFromDb ==
    \E objid \in ObjIds, ra_dec \in RaDecs, tol \in Tols,
       emptyTimeOk \in BOOLEAN :
        LET r == FromDb(dbConn_lc, objid, ra_dec, tol, emptyTimeOk) IN
        /\ lightcurve' = AssignLightcurve(r, lightcurve)
        /\ outcome' = [op |-> "build_lightcurve_from_db", objid |-> objid,
                       ra_dec |-> ra_dec, tol |-> tol, result |-> r.result,
                       dbCalls |-> r.dbCalls, printed |-> r.printed,
                       plotted |-> FALSE]
        /\ UNCHANGED <<dbConn_lc, disk, bandpasses, visit_map, visit_mjd>>
        /\ UNCHANGED tsVars

-----------------------------------------------------------------------------
(* LightCurve.visualize_lightcurve *)

NotBuilt == "ValueError: No lightcurve yet. Use build_lightcurve first."

\* the result, and whether sncosmo.plot_lc was called
visualize_lightcurve(lc) ==
    IF lc = NoAttr THEN [result |-> "AttributeError", plotted |-> FALSE]
    ELSE IF lc[1] = None THEN [result |-> NotBuilt, plotted |-> FALSE]
    ELSE [result |-> "ok", plotted |-> TRUE]

VisualizeLightcurve ==
    LET r == visualize_lightcurve(lightcurve) IN
    /\ outcome' = [op |-> "visualize_lightcurve", objid |-> None,
                   ra_dec |-> None, tol |-> 0, result |-> r.result,
                   dbCalls |-> <<>>, printed |-> None, plotted |-> r.plotted]
    /\ UNCHANGED <<dbConn_lc, disk, bandpasses, visit_map, visit_mjd, lightcurve>>
    /\ UNCHANGED tsVars

-----------------------------------------------------------------------------
(* TrueStars: bounds, inputs and the services it calls *)

NumVisits == 2      \* visits the OpSim database knows: 1..NumVisits
NumStars == 2       \* stars of the truth catalog: 1..NumStars
MaxVisitList == 2   \* length of for_obsHistIds

KnownVisits == 1..NumVisits
Stars == 1..NumStars

\* obs_metadata.OpsimMetaData of a visit of the OpSim database
OpsimMetaData(v) ==
    [obsHistID |-> v,
     filter |-> IF v % 2 = 1 THEN "r" ELSE "g",
     fiveSigmaDepth |-> 240 + v]

\* obs_gen.getObservationMetaData(obsHistID=...): the list of matches
getObservationMetaData(obsHistID) ==
    IF obsHistID \in KnownVisits THEN <<OpsimMetaData(obsHistID)>> ELSE <<>>

\* '../data/selectedVisits.csv', column obsHistID
SelectedVisits == [i \in 1..NumVisits |-> i]

\* the catalog rows of a star: position and the magnitude its SED, magNorm
\* and extinction give in a filter (0.1 mag; on the 2.5 mag grid below 22.5)
raJ2000(star) == 53000 + star
decJ2000(star) == -27400 - star
StarMag(star, filter) == 225 - 25 * (star + (IF filter = "g" THEN 1 ELSE 0))

\* the star lists a catalog query may return for a visit
StarLists == DistinctSeqUpTo(Stars, NumStars) \ {<<>>}

VisitLists == {None} \cup {Some(l) : l \in SeqUpTo(1..(NumVisits + 1), MaxVisitList)}

FileNames == {"truth.db", "other.db"}
TableNames == {"stars", "truth"}

-----------------------------------------------------------------------------
(* TrueStars.get_true_stars *)

FluxZeroMag == 225      \* 22.5 mag
MagPerDecade == 25      \* 1 / 0.4 mag

\* np.power(10, -0.4*(mag - 22.5)), for magnitudes on the 2.5 mag grid
Flux(mag) == 10 ^ ((FluxZeroMag - mag) \div MagPerDecade)

\* calcSNR_m5(mag, bandpass, m5, phot_params)[0]: the library's value is kept
\* as the term of its inputs
calcSNR_m5(mag, bandpass, m5) == [mag |-> mag, bandpass |-> bandpass, m5 |-> m5]

\* a / b, kept as the term of its operands
Divide(a, b) == [num |-> a, den |-> b]

\* the keys of BandpassDict.loadTotalBandpassesFromFiles()
TotalBandpasses == {"u", "g", "r", "i", "z", "y"}

\* bp_dict.magArrayForSedList(sed_list): per filter, the magnitude of every
\* star of the chunk the SED list was loaded from
magArrayForSedList(chunk_data) ==
    [f \in TotalBandpasses |->
        [i \in 1..Len(chunk_data) |-> StarMag(chunk_data[i], f)]]

\* the obs_metadata_list loop: getObservationMetaData(...)[0] per visit id
RECURSIVE ObsMetadataList(_)
ObsMetadataList(ids) ==
    IF ids = <<>> THEN [result |-> "ok", list |-> <<>>]
    ELSE LET found == getObservationMetaData(Head(ids)) IN
         IF found = <<>> THEN [result |-> "IndexError", list |-> <<>>]
         ELSE LET rest == ObsMetadataList(Tail(ids)) IN
              [result |-> rest.result, list |-> <<found[1]>> \o rest.list]

\* visit_df: one row per catalog star of the visit; np.array of columns of
\* unequal length is no 7-column table and pd.DataFrame raises
VisitDf(chunk_data, visit_filter, flux_array, flux_error, obs_hist_id) ==
    IF Len(flux_array) # Len(chunk_data)
    THEN [result |-> "ValueError: shape", rows |-> <<>>]
    ELSE [result |-> "ok",
          rows |-> [i \in 1..Len(chunk_data) |->
                      [uniqueId |-> chunk_data[i],
                       ra |-> raJ2000(chunk_data[i]),
                       dec |-> decJ2000(chunk_data[i]),
                       filter |-> visit_filter,
                       true_flux |-> flux_array[i],
                       true_flux_error |-> flux_error[i],
                       obsHistId |-> obs_hist_id]]]

\* the per-visit loop; mag_array is None until the SEDs are loaded, which
\* happens for the first visit only
RECURSIVE VisitLoop(_, _, _, _)
VisitLoop(cat, obs_metadata_list, mag_array, df) ==
    IF obs_metadata_list = <<>> THEN [result |-> "ok", star_df |-> df]
    ELSE LET obs_metadata == Head(obs_metadata_list)
             chunk_data == cat[obs_metadata.obsHistID]
             mags == IF mag_array = None THEN magArrayForSedList(chunk_data)
                     ELSE mag_array[1]
             visit_filter == obs_metadata.filter
             five_sigma_depth == obs_metadata.fiveSigmaDepth
             flux_array == [i \in 1..Len(mags[visit_filter]) |->
                               Flux(mags[visit_filter][i])]
             snr == [i \in 1..Len(mags[visit_filter]) |->
                        calcSNR_m5(mags[visit_filter][i], visit_filter,
                                   five_sigma_depth)]
             flux_error == [i \in 1..Len(flux_array) |->
                               Divide(flux_array[i], snr[i])]
             visit_df == VisitDf(chunk_data, visit_filter, flux_array,
                                 flux_error, obs_metadata.obsHistID)
         IN IF visit_df.result # "ok"
            THEN [result |-> visit_df.result, star_df |-> df]
            ELSE VisitLoop(cat, Tail(obs_metadata_list), Some(mags),
                           df \o visit_df.rows)

\* the call: its result and the value of self.star_df after it
get_true_stars(cat, old_df, for_obsHistIds) ==
    LET ids == IF for_obsHistIds = None THEN SelectedVisits
               ELSE for_obsHistIds[1]
        metas == ObsMetadataList(ids)
    IN IF metas.result # "ok"
       THEN [result |-> metas.result, star_df |-> old_df]
       ELSE LET r == VisitLoop(cat, metas.list, None, <<>>) IN
            IF r.result = "ok"
            THEN [result |-> "ok", star_df |-> Attr(r.star_df)]
            ELSE [result |-> r.result, star_df |-> old_df]

GetTrueStars ==
    \E for_obsHistIds \in VisitLists :
        LET r == get_true_stars(catalog, star_df, for_obsHistIds) IN
        /\ star_df' = r.star_df
        /\ ts_outcome' = [op |-> "get_true_stars", ids |-> for_obsHistIds,
                          filename |-> "", table_name |-> "",
                          result |-> r.result]
        /\ UNCHANGED <<catalog, sqlite>>
        /\ UNCHANGED lcVars

-----------------------------------------------------------------------------
(* TrueStars.write_to_db *)

\* DataFrame.to_sql(name, engine): if_exists defaults to 'fail', the index
\* is written as a column
to_sql(df, name, file) ==
    IF name \in DOMAIN file
    THEN [result |-> "ValueError: Table exists", file |-> file]
    ELSE [result |-> "ok",
          file |-> [t \in (DOMAIN file) \cup {name} |->
                      IF t = name
                      THEN [i \in 1..Len(df) |-> [index |-> i - 1, row |-> df[i]]]
                      ELSE file[t]]]

\* the table name handed to to_sql
TargetTable(table_name) == "stars"

write_to_db(df, files, filename, table_name) ==
    IF df = NoAttr THEN [result |-> "AttributeError", files |-> files]
    ELSE LET w == to_sql(df[1], TargetTable(table_name), files[filename])
         IN [result |-> w.result,
             files |-> [files EXCEPT ![filename] = w.file]]

WriteToDb ==
    \E filename \in FileNames, table_name \in TableNames :
        LET r == write_to_db(star_df, sqlite, filename, table_name) IN
        /\ sqlite' = r.files
        /\ ts_outcome' = [op |-> "write_to_db", ids |-> None,
                          filename |-> filename, table_name |-> table_name,
                          result |-> r.result]
        /\ UNCHANGED <<catalog, star_df>>
        /\ UNCHANGED lcVars

-----------------------------------------------------------------------------
(* Specifications *)

TSNoCall == [op |-> "__init__", ids |-> None, filename |-> "",
             table_name |-> "", result |-> "ok"]

\* TrueStars(dbConn, opsimDB_filename), and no SQLite file written yet
TSInit ==
    /\ catalog \in [KnownVisits -> StarLists]
    /\ star_df = NoAttr
    /\ sqlite = [f \in FileNames |-> <<>>]
    /\ ts_outcome = TSNoCall

\* the state of a program that made no TrueStars
TSIdle ==
    /\ catalog = [v \in KnownVisits |-> <<1>>]
    /\ star_df = NoAttr
    /\ sqlite = [f \in FileNames |-> <<>>]
    /\ ts_outcome = TSNoCall

\* the state of a program that made no LightCurve
LCIdle ==
    /\ dbConn_lc = FileModeDb
    /\ disk = <<>>
    /\ bandpasses = NoAttr
    /\ visit_map = NoAttr
    /\ visit_mjd = NoAttr
    /\ lightcurve = NoAttr
    /\ outcome = NoCall

\* a program using one LightCurve
Init == LCInit /\ TSIdle
Next == BuildLightcurve \/ BuildLightcurveFromDb \/ VisualizeLightcurve
Spec == Init /\ [][Next]_vars

\* a program using one TrueStars
InitTruth == TSInit /\ LCIdle
NextTruth == GetTrueStars \/ WriteToDb
SpecTruth == InitTruth /\ [][NextTruth]_vars

-----------------------------------------------------------------------------
(* Properties of LightCurve, under Spec *)

IsFromDb(o) == o.op = "build_lightcurve_from_db"

\* the objects the coordinate lookup of the last call returns
Looked(o) == objectFromRaDec(dbConn_lc, o.ra_dec[1][1], o.ra_dec[1][2], o.tol)

\* self.lightcurve holds a table
HasTable(lc) == lc # NoAttr /\ lc[1] # None

\* C1: build_lightcurve_from_db called with objid and ra_dec both None or
\* both given raises one of the two invalid-argument ValueErrors, whatever
\* tol is, and makes no call on the database connection first.
C1_BadSelectorsRaise ==
    (IsFromDb(outcome) /\ ((outcome.objid = None) <=> (outcome.ra_dec = None)))
    => /\ outcome.result \in {MustSpecify, OnlyOne}
       /\ outcome.dbCalls = <<>>

\* C1 happens: both selectors given with a non-default tol
C1_Witness ==
    /\ IsFromDb(outcome)
    /\ outcome.objid # None /\ outcome.ra_dec # None /\ outcome.tol = 0
    /\ outcome.result = OnlyOne

\* C2: on every instance, visualize_lightcurve called before any build has
\* succeeded raises the not-yet-built ValueError and does not reach plot_lc.
C2_VisualizeBeforeBuild ==
    (outcome.op = "visualize_lightcurve" /\ ~HasTable(lightcurve))
    => outcome.result = NotBuilt /\ ~outcome.plotted

\* C3: with ra_dec only and exactly one object found (one that has
\* forced-source rows), the call completes and self.lightcurve is the table
\* of that object's forced-source rows, as the objid mode builds it.
C3_RaDecSingleMatchBuilds ==
    (/\ IsFromDb(outcome) /\ outcome.objid = None /\ outcome.ra_dec # None
     /\ Len(Looked(outcome)) = 1
     /\ all_fs_visits_from_id(dbConn_lc, Looked(outcome)[1].id) # <<>>)
    => /\ outcome.result = "ok"
       /\ lightcurve = Attr(Some(DbLightcurve(
              all_fs_visits_from_id(dbConn_lc, Looked(outcome)[1].id),
              Looked(outcome))))

\* C4: with ra_dec only and no object found, the call raises the no-match
\* ValueError and self.lightcurve is what it was before the call.
C4_NoMatchRaises ==
    [][(/\ IsFromDb(outcome') /\ outcome'.objid = None /\ outcome'.ra_dec # None
        /\ Looked(outcome') = <<>>)
       => (outcome'.result = NoMatch /\ lightcurve' = lightcurve)]_vars

\* C4 happens: a no-match call made while a table from an earlier build is held
C4_Witness ==
    /\ IsFromDb(outcome) /\ outcome.objid = None
    /\ outcome.result = NoMatch
    /\ HasTable(lightcurve)

\* C5: with ra_dec only and more than one object found, the matches are
\* printed, no error is raised and self.lightcurve is assembled.
C5_AmbiguousMatchOnlyLogged ==
    (/\ IsFromDb(outcome) /\ outcome.objid = None /\ outcome.ra_dec # None
     /\ Len(Looked(outcome)) > 1)
    => /\ outcome.printed = Some(Looked(outcome))
       /\ outcome.result = "ok"
       /\ HasTable(lightcurve)

\* the (bandpass, visit) pairs of visit_map whose file has a row of objid
MatchingPairs(objid) ==
    {p \in UNION {{<<b, v>> : v \in Range(visit_map[1][b])} :
                     b \in Range(bandpasses[1])} :
        \E k \in 1..Len(disk[DirName(p[2], p[1])][1]) :
            disk[DirName(p[2], p[1])][1][k].objectId = objid}

\* the first row of objid in a file
FirstRowOf(rows, objid) ==
    rows[CHOOSE k \in 1..Len(rows) :
            /\ rows[k].objectId = objid
            /\ \A j \in 1..(k - 1) : rows[j].objectId # objid]

\* C9: a build_lightcurve(objid) that returns leaves a table of eight
\* columns of one length, with exactly one row per (bandpass, visit) pair of
\* visit_map whose file has a row of objid and no other row; the row has
\* bandpass 'lsst'+band, the visit's visit_mjd entry and the photometry of
\* the first matching row of the file.
C9_FileLightcurveRows ==
    (outcome.op = "build_lightcurve" /\ outcome.result = "ok")
    => LET t == lightcurve[1][1]
           objid == outcome.objid[1]
           pairs == MatchingPairs(objid)
           n == Cardinality(pairs)
       IN /\ DOMAIN t = {"bandpass", "mjd", "ra", "dec", "flux", "flux_error",
                         "zp", "zpsys"}
          /\ \A c \in DOMAIN t : Len(t[c]) = n
          /\ \E f \in [1..n -> pairs] :
               /\ \A i, j \in 1..n : i # j => f[i] # f[j]
               /\ \A i \in 1..n :
                    LET row == FirstRowOf(disk[DirName(f[i][2], f[i][1])][1],
                                          objid)
                    IN /\ t.bandpass[i] = lsst(f[i][1])
                       /\ t.mjd[i] = visit_mjd[1][f[i][2]]
                       /\ t.ra[i] = row.coord_ra
                       /\ t.dec[i] = row.coord_dec
                       /\ t.flux[i] = row.base_PsfFlux_flux
                       /\ t.flux_error[i] = row.base_PsfFlux_fluxSigma

\* C9 happens: a visit matched whose file has two rows of the object,
\* and a listed visit whose file has no row of it
C9_Witness ==
    /\ outcome.op = "build_lightcurve" /\ outcome.result = "ok"
    /\ outcome.objid = Some(1)
    /\ Len(lightcurve[1][1].flux) = 1
    /\ \E d \in DOMAIN disk : disk[d] = Some(<<rowA, rowA2>>)
    /\ \E d \in DOMAIN disk : disk[d] = Some(<<rowB>>)

\* C10: a call that raises leaves self.lightcurve as it was, visualize never
\* changes it, and a build that returns replaces it: the new table has as
\* many rows as that call's own source has for the object, whatever table
\* was held before.
C10_LightcurveIsLastBuild ==
    [][/\ outcome'.result # "ok" => lightcurve' = lightcurve
       /\ outcome'.op = "visualize_lightcurve" => lightcurve' = lightcurve
       /\ (IsFromDb(outcome') /\ outcome'.result = "ok")
          => /\ HasTable(lightcurve')
             /\ Len(lightcurve'[1][1].flux) =
                  Len(all_fs_visits_from_id(dbConn_lc, outcome'.objid[1]))
       /\ (outcome'.op = "build_lightcurve" /\ outcome'.result = "ok")
          => /\ HasTable(lightcurve')
             /\ Len(lightcurve'[1][1].flux) =
                  Cardinality(MatchingPairs(outcome'.objid[1]))]_vars

\* C10 happens: a database build failed after the final assignment of a
\* file-based build, whose table is still held
C10_Witness ==
    /\ IsFromDb(outcome) /\ outcome.result = "UnboundLocalError"
    /\ HasTable(lightcurve)
    /\ "obsHistId" \notin DOMAIN lightcurve[1][1]
    /\ Len(lightcurve[1][1].flux) > 0

-----------------------------------------------------------------------------
(* Properties of TrueStars, under SpecTruth *)

\* C6: after write_to_db(filename, table_name) returns, the rows of star_df
\* are in the table of the file that is called table_name.
C6_WritesNamedTable ==
    (ts_outcome.op = "write_to_db" /\ ts_outcome.result = "ok")
    => /\ ts_outcome.table_name \in DOMAIN sqlite[ts_outcome.filename]
       /\ LET stored == sqlite[ts_outcome.filename][ts_outcome.table_name]
          IN [i \in 1..Len(stored) |-> stored[i].row] = star_df[1]

\* the visit ids of the last get_true_stars call
CalledIds == IF ts_outcome.ids = None THEN SelectedVisits ELSE ts_outcome.ids[1]

\* C7: get_true_stars called with visits of the OpSim database completes
\* and star_df has one row per (star, visit) pair: as many rows as the
\* catalog returned stars over the visits, each with its visit's obsHistId
\* and filter, also when the visits return different numbers of stars.
C7_RowPerStarPerVisit ==
    (/\ ts_outcome.op = "get_true_stars"
     /\ \A i \in 1..Len(CalledIds) : CalledIds[i] \in KnownVisits)
    => /\ ts_outcome.result = "ok"
       /\ star_df # NoAttr
       /\ Len(star_df[1]) =
            Sum([i \in 1..Len(CalledIds) |-> Len(catalog[CalledIds[i]])])
       /\ \A v \in KnownVisits :
            Cardinality({k \in 1..Len(star_df[1]) : star_df[1][k].obsHistId = v})
            = Sum([i \in 1..Len(CalledIds) |->
                      IF CalledIds[i] = v THEN Len(catalog[v]) ELSE 0])
       /\ \A k \in 1..Len(star_df[1]) :
            star_df[1][k].filter = OpsimMetaData(star_df[1][k].obsHistId).filter

\* C8: every row of star_df has true_flux = 10^(-0.4*(mag-22.5)) and
\* true_flux_error = true_flux / SNR, for mag the magnitude of the row's
\* star in the row's visit's filter and the SNR of that magnitude at that
\* visit's five-sigma depth.
C8_FluxErrorIsFluxOverSnr ==
    star_df # NoAttr
    => \A k \in 1..Len(star_df[1]) :
         LET row == star_df[1][k]
             mag == StarMag(row.uniqueId, row.filter)
             m5 == OpsimMetaData(row.obsHistId).fiveSigmaDepth
         IN /\ row.true_flux = Flux(mag)
            /\ row.true_flux_error =
                 Divide(Flux(mag), calcSNR_m5(mag, row.filter, m5))

====
